---------------------------- MODULE Spec2Model ----------------------------
(***************************************************************************)
(* A model of the constexpr ray caster (src/main.cpp) and of the length    *)
(* check of its raw-to-PNG converter (src/bin2png.cpp).                    *)
(*                                                                         *)
(* float values.  A float is modelled as a record [k, n, d]:               *)
(*    k = 0   the rational n/d (d > 0, lowest terms),                      *)
(*    k = 1   (n/d) * (MAXFLOAT/2), with 0 < |n/d| <= 2,                   *)
(*    k = -1  (n/d) / (MAXFLOAT/2), a value near the bottom of the range,  *)
(*    k = 2   +infinity (n = 1) or -infinity (n = -1),                     *)
(*    k = 3   NaN.                                                         *)
(* Arithmetic on rationals is exact (rounding to 24 bits is not modelled); *)
(* what is modelled of IEEE-754 is the order, overflow beyond MAXFLOAT to  *)
(* an infinity, absorption of a small addend by a huge one, NaN, and the   *)
(* NaN rules of fminf, fmaxf and of the comparisons.                       *)
(***************************************************************************)
EXTENDS Integers, Sequences, FiniteSets, TLC

VARIABLES
    pc,          \* position of the modelled code
    scene,       \* const Voxel scene[]            (a sequence of BBox)
    cam,         \* const float3 cam[4]            (a sequence of 4 float3)
    image_w,     \* int image_w
    image_h,     \* int image_h
    global_idx,  \* shootRay's first argument
    ray,         \* shootRay's local Ray / intersect's argument
    i,           \* loop counter of shootRay and of computeSceneBBox
    hit,         \* the Hit returned by the last call of intersect
    closest,     \* shootRay's running best Hit
    pixel,       \* the Pixel returned by shootRay
    bbox,        \* intersect's BBox argument / computeSceneBBox's accumulator
    rot,         \* main's (sin, cos) of roll, azimuth and declination
    stack,       \* pending INJECT_ELEMENTS_k(n) invocations, innermost first
    n_image,     \* number of initialisers emitted into image[] so far
    file,        \* image.bin as main writes it
    conv         \* locals of bin2png's main

vars == << pc, scene, cam, image_w, image_h, global_idx, ray, i, hit, closest,
           pixel, bbox, rot, stack, n_image, file, conv >>

\* placeholder of a variable a specification does not use
Unused == "unused"

-----------------------------------------------------------------------------
(* float *)

Abs(x) == IF x < 0 THEN -x ELSE x

Sgn(x) == IF x < 0 THEN -1 ELSE IF x > 0 THEN 1 ELSE 0

RECURSIVE GCD(_, _)
GCD(a, b) == IF b = 0 THEN a ELSE GCD(b, a % b)

NaN == [k |-> 3, n |-> 0, d |-> 1]

Inf(s) == [k |-> 2, n |-> s, d |-> 1]

Zero == [k |-> 0, n |-> 0, d |-> 1]

\* the float (n/d) * (MAXFLOAT/2)^k, k in -1..1: a zero is the one Zero, a
\* product beyond MAXFLOAT is an infinity, a fraction is in lowest terms
Mk(k, n, d) ==
    IF n = 0 THEN Zero
    ELSE IF k = 1 /\ Abs(n) > 2 * Abs(d) THEN Inf(Sgn(n) * Sgn(d))
    ELSE LET g == GCD(Abs(n), Abs(d))
         IN  [k |-> k, n |-> (Sgn(d) * n) \div g, d |-> Abs(d) \div g]

\* a float literal n/d
Fl(n, d) == Mk(0, n, d)

\* FLT_MAX
MAXFLOAT == [k |-> 1, n |-> 2, d |-> 1]

IsNaN(a) == a.k = 3

\* unary minus of a float
FNeg(a) == [a EXCEPT !.n = -a.n]

\* a * b
FMul(a, b) ==
    IF IsNaN(a) \/ IsNaN(b) THEN NaN
    ELSE IF a.n = 0 \/ b.n = 0
         THEN (IF a.k = 2 \/ b.k = 2 THEN NaN ELSE Zero)
    ELSE IF a.k = 2 \/ b.k = 2 \/ a.k + b.k >= 2 THEN Inf(Sgn(a.n) * Sgn(b.n))
    ELSE IF a.k + b.k <= -2 THEN Zero
    ELSE Mk(a.k + b.k, a.n * b.n, a.d * b.d)

\* a + b
FAdd(a, b) ==
    IF IsNaN(a) \/ IsNaN(b) THEN NaN
    ELSE IF a.k = 2 /\ b.k = 2 THEN (IF a.n = b.n THEN a ELSE NaN)
    ELSE IF a.n = 0 THEN b
    ELSE IF b.n = 0 THEN a
    ELSE IF a.k > b.k THEN a
    ELSE IF b.k > a.k THEN b
    ELSE Mk(a.k, a.n * b.d + b.n * a.d, a.d * b.d)

\* 1.f / a, for a # 0
FInv(a) ==
    IF IsNaN(a) THEN NaN
    ELSE IF a.k = 2 THEN Zero
    ELSE Mk(-a.k, a.d * Sgn(a.n), Abs(a.n))

\* position of a float among the magnitudes: sign and scale
Rank(a) == Sgn(a.n) * (a.k + 2)

\* a < b
isless(a, b) ==
    /\ ~IsNaN(a)
    /\ ~IsNaN(b)
    /\ \/ Rank(a) < Rank(b)
       \/ /\ Rank(a) = Rank(b)
          /\ a.k < 2
          /\ a.n * b.d < b.n * a.d

\* a >= b
isgreaterequal(a, b) == ~IsNaN(a) /\ ~IsNaN(b) /\ ~isless(a, b)

\* a != b
FNeq(a, b) == IsNaN(a) \/ IsNaN(b) \/ isless(a, b) \/ isless(b, a)

fminf(a, b) ==
    IF IsNaN(a) THEN b ELSE IF IsNaN(b) THEN a ELSE IF isless(b, a) THEN b ELSE a

fmaxf(a, b) ==
    IF IsNaN(a) THEN b ELSE IF IsNaN(b) THEN a ELSE IF isless(a, b) THEN b ELSE a

select(arg_else, arg_then, pred) == IF pred THEN arg_then ELSE arg_else

-----------------------------------------------------------------------------
(* float3 *)

float3(x, y, z) == [x |-> x, y |-> y, z |-> z]

float3_same(same) == float3(same, same, same)

float3_neg(v) == float3(FNeg(v.x), FNeg(v.y), FNeg(v.z))

\* division by zero is approximated by MAXFLOAT
RcpOf(x) == IF FNeq(x, Zero) THEN FInv(x) ELSE MAXFLOAT

float3_rcp(v) == float3(RcpOf(v.x), RcpOf(v.y), RcpOf(v.z))

float3_add(a, b) == float3(FAdd(a.x, b.x), FAdd(a.y, b.y), FAdd(a.z, b.z))

float3_sub(a, b) == float3_add(a, float3_neg(b))

float3_mul(a, b) == float3(FMul(a.x, b.x), FMul(a.y, b.y), FMul(a.z, b.z))

fmin(a, b) == float3(fminf(a.x, b.x), fminf(a.y, b.y), fminf(a.z, b.z))

fmax(a, b) == float3(fmaxf(a.x, b.x), fmaxf(a.y, b.y), fmaxf(a.z, b.z))

clamp(x, min, max) == fmax(fmin(x, max), min)

-----------------------------------------------------------------------------
(* BBox, Ray, Hit, intersect *)

BBox(min, max) == [min |-> min, max |-> max]

Ray(origin, rcpdir) == [origin |-> origin, rcpdir |-> rcpdir]

Hit(dist, a_mask, b_mask) == [dist |-> dist, a_mask |-> a_mask, b_mask |-> b_mask]

\* Hit's default constructor
HitDefault == Hit(MAXFLOAT, 0, 0)

\* bool to int
BoolInt(b) == IF b THEN 1 ELSE 0

\* a_mask with the comparison turned round
AMask_Swapped(axial_min) == BoolInt(isgreaterequal(axial_min.y, axial_min.x))

\* the mask a_mask of intersect
AMask(axial_min) == BoolInt(isgreaterequal(axial_min.x, axial_min.y))

\* the mask b_mask of intersect
BMask(axial_min) ==
    BoolInt(isgreaterequal(fmaxf(axial_min.x, axial_min.y), axial_min.z))

\* HitCond with the lower bound not strict (a ray starting on a face hits)
HitCond_NotStrict(min, max) == ~isless(min, Zero) /\ isless(min, max)

\* the condition under which intersect returns min rather than MAXFLOAT
HitCond(min, max) == isless(Zero, min) /\ isless(min, max)

intersect(b, r) ==
    LET t0 == float3_mul(float3_sub(b.min, r.origin), r.rcpdir)
        t1 == float3_mul(float3_sub(b.max, r.origin), r.rcpdir)
        axial_min == fmin(t0, t1)
        axial_max == fmax(t0, t1)
        a_mask == AMask(axial_min)
        b_mask == BMask(axial_min)
        min == fmaxf(fmaxf(axial_min.x, axial_min.y), axial_min.z)
        max == fminf(fminf(axial_max.x, axial_max.y), axial_max.z)
    IN  Hit(select(MAXFLOAT, min, HitCond(min, max)), a_mask, b_mask)

\* the Ray shootRay builds from the eye and a ray direction
MakeRay(origin, ray_direction) ==
    Ray(origin, clamp(float3_rcp(ray_direction),
                      float3_same(FMul(FNeg(MAXFLOAT), Fl(1, 2))),
                      float3_same(FMul(MAXFLOAT, Fl(1, 2)))))

-----------------------------------------------------------------------------
(* intersect as a function of one box and one ray *)

\* the boxes intersect is applied to have their faces on a grid of step 3/2,
\* out to IGrid steps from the origin: 3 * (MAXFLOAT/2) overflows
IGrid == 2

ICoord == { Fl(3 * c, 2) : c \in -IGrid..IGrid }

\* boxes with min <= max on every axis
IBoxes ==
    { BBox(float3(x[1], y[1], z[1]), float3(x[2], y[2], z[2])) :
        x \in { p \in ICoord \X ICoord : ~isless(p[2], p[1]) },
        y \in { p \in ICoord \X ICoord : ~isless(p[2], p[1]) },
        z \in { p \in ICoord \X ICoord : ~isless(p[2], p[1]) } }

\* ray directions: not the zero vector
IDirs ==
    { float3(Fl(x, 1), Fl(y, 1), Fl(z, 1)) :
        x \in -1..1, y \in -1..1, z \in -1..1 } \ { float3_same(Zero) }

IRays == { MakeRay(float3_same(Zero), dir) : dir \in IDirs }

InitIntersect ==
    /\ pc = "intersect_call"
    /\ bbox \in IBoxes
    /\ ray \in IRays
    /\ hit = Unused
    /\ scene = Unused /\ cam = Unused /\ image_w = Unused /\ image_h = Unused
    /\ global_idx = Unused /\ i = Unused /\ closest = Unused /\ pixel = Unused
    /\ rot = Unused /\ stack = Unused /\ n_image = Unused /\ file = Unused
    /\ conv = Unused

CallIntersect ==
    /\ pc = "intersect_call"
    /\ hit' = intersect(bbox, ray)
    /\ pc' = "intersect_ret"
    /\ UNCHANGED << scene, cam, image_w, image_h, global_idx, ray, i, closest,
                    pixel, bbox, rot, stack, n_image, file, conv >>

NextIntersect == CallIntersect

SpecIntersect == InitIntersect /\ [][NextIntersect]_vars

-----------------------------------------------------------------------------
(* the slab method as the specification states it *)

Axes == {"x", "y", "z"}

\* t0 and t1 of one axis
SlabT0(b, r, a) == FMul(FAdd(b.min[a], FNeg(r.origin[a])), r.rcpdir[a])

SlabT1(b, r, a) == FMul(FAdd(b.max[a], FNeg(r.origin[a])), r.rcpdir[a])

\* the per-axis entry min(t0, t1) and exit max(t0, t1)
AxisEntry(b, r, a) ==
    IF isless(SlabT1(b, r, a), SlabT0(b, r, a)) THEN SlabT1(b, r, a)
    ELSE SlabT0(b, r, a)

AxisExit(b, r, a) ==
    IF isless(SlabT1(b, r, a), SlabT0(b, r, a)) THEN SlabT0(b, r, a)
    ELSE SlabT1(b, r, a)

\* the greatest of the three per-axis entries, the least of the three exits
SlabEntry(b, r) ==
    CHOOSE v \in { AxisEntry(b, r, a) : a \in Axes } :
        \A a \in Axes : ~isless(v, AxisEntry(b, r, a))

SlabExit(b, r) ==
    CHOOSE v \in { AxisExit(b, r, a) : a \in Axes } :
        \A a \in Axes : ~isless(AxisExit(b, r, a), v)

\* 0 < entry < exit
SlabHit(b, r) ==
    isless(Zero, SlabEntry(b, r)) /\ isless(SlabEntry(b, r), SlabExit(b, r))

\* the Hit h is what C1 states for the slab entry and exit
HitIffStrictlyInside(h, entry, exit) ==
    /\ (h.dist # MAXFLOAT) <=> (isless(Zero, entry) /\ isless(entry, exit))
    /\ h.dist = IF isless(Zero, entry) /\ isless(entry, exit) THEN entry
                ELSE MAXFLOAT
    /\ entry = Zero => h.dist = MAXFLOAT
    /\ isless(entry, Zero) => h.dist = MAXFLOAT
    /\ entry = exit => h.dist = MAXFLOAT

C1_FaceMissReached ==
    pc = "intersect_ret" /\ SlabEntry(bbox, ray) = Zero
        /\ isless(Zero, SlabExit(bbox, ray)) /\ hit.dist = MAXFLOAT

C1_InsideMissReached ==
    pc = "intersect_ret" /\ isless(SlabEntry(bbox, ray), Zero)
        /\ isless(Zero, SlabExit(bbox, ray)) /\ hit.dist = MAXFLOAT

C1_TangentMissReached ==
    pc = "intersect_ret" /\ isless(Zero, SlabEntry(bbox, ray))
        /\ SlabEntry(bbox, ray) = SlabExit(bbox, ray) /\ hit.dist = MAXFLOAT

-----------------------------------------------------------------------------
(* Pixel and shootRay *)

Pixel(r, g, b) == [r |-> r, g |-> g, b |-> b]

\* Pixel(uint8_t same)
Pixel_same(same) == Pixel(same, same, same)

\* float to uint8_t: the fraction is discarded.  The operand is one of
\* 127.5 and 255 here; the conversion of a value outside 0..255 is undefined
\* and is not reached.
ToU8(a) == a.n \div a.d

\* Pixel(const float3&)
Pixel_float3(a) ==
    Pixel(ToU8(FMul(a.x, Fl(255, 1))),
          ToU8(FMul(a.y, Fl(255, 1))),
          ToU8(FMul(a.z, Fl(255, 1))))

\* int to float
IntFl(n) == Fl(n, 1)

\* float3 * float, through float3's converting constructor
float3_scale(v, f) == float3_mul(v, float3_same(f))

\* shootRay's ray_direction for pixel global_idx of a w x h image
RayDirection(g, w, h, c) ==
    LET idy == g \div w
        idx == g % w
    IN  float3_add(
            float3_add(
                float3_scale(c[1], FMul(IntFl(idx * 2 - w), FInv(IntFl(w)))),
                float3_scale(c[2], FMul(IntFl(idy * 2 - h), FInv(IntFl(h))))),
            c[3])

\* shootRay's ray
PixelRay(g, w, h, c) == MakeRay(c[4], RayDirection(g, w, h, c))

\* the update that keeps the last box hit, whatever its distance
Closer_LastHit(best, h) == IF FNeq(h.dist, MAXFLOAT) THEN h ELSE best

\* the update with <= for < : an equally distant later hit replaces the kept one
Closer_NotStrict(best, h) == IF ~isless(best.dist, h.dist) THEN h ELSE best

\* one iteration's update of closest
Closer(best, h) == IF isless(h.dist, best.dist) THEN h ELSE best

\* closest after the first k iterations of the scan
RECURSIVE Scan(_, _, _)
Scan(sc, r, k) ==
    IF k = 0 THEN HitDefault ELSE Closer(Scan(sc, r, k - 1), intersect(sc[k], r))

\* the face normal chosen from the masks
NormalOf(a_mask, b_mask) ==
    IF b_mask # 0
    THEN (IF a_mask # 0 THEN float3(Fl(1, 1), Zero, Zero)
                        ELSE float3(Zero, Fl(1, 1), Zero))
    ELSE float3(Zero, Zero, Fl(1, 1))

\* the shading without the test for a miss
Shade_NoBackground(best) ==
    Pixel_float3(float3_add(float3_mul(NormalOf(best.a_mask, best.b_mask),
                                       float3_same(Fl(1, 2))),
                            float3_same(Fl(1, 2))))

\* shootRay's return value for the kept Hit
Shade(best) ==
    IF FNeq(MAXFLOAT, best.dist)
    THEN Pixel_float3(float3_add(float3_mul(NormalOf(best.a_mask, best.b_mask),
                                            float3_same(Fl(1, 2))),
                                 float3_same(Fl(1, 2))))
    ELSE Pixel_same(0)

shootRay(g, w, h, c, sc) == Shade(Scan(sc, PixelRay(g, w, h, c), Len(sc)))

-----------------------------------------------------------------------------
(* shootRay as a state machine, over small scenes, cameras and images *)

\* longest scene
MaxScene == 2

\* largest image width and height
MaxDim == 2

V3(x, y, z) == float3(Fl(x, 1), Fl(y, 1), Fl(z, 1))

Interval(lo, hi) == << lo, hi >>

\* the voxels scenes are made of
Palette ==
    { BBox(V3(x[1], y[1], z[1]), V3(x[2], y[2], z[2])) :
        x \in { Interval(-3, 0), Interval(-2, -1) },
        y \in { Interval(-1, 1), Interval(-2, -1) },
        z \in { Interval(-1, 1), Interval(-1, 0) } }

Scenes == UNION { [1..n -> Palette] : n \in 0..MaxScene }

\* camera bases (right, up, forward, eye): one looking down -z from (0,0,2),
\* one looking down -x from (2,0,0)
Cams ==
    { << V3(1, 0, 0), V3(0, 1, 0), V3(0, 0, -1), V3(0, 0, 2) >>,
      << V3(0, 0, -1), V3(0, 1, 0), V3(-1, 0, 0), V3(2, 0, 0) >> }

InitShoot ==
    /\ pc = "shoot_call"
    /\ scene \in Scenes
    /\ cam \in Cams
    /\ image_w \in 1..MaxDim
    /\ image_h \in 1..MaxDim
    /\ global_idx \in 0..(image_w * image_h - 1)
    /\ ray = Unused /\ i = Unused /\ hit = Unused /\ closest = Unused
    /\ pixel = Unused
    /\ bbox = Unused /\ rot = Unused /\ stack = Unused /\ n_image = Unused
    /\ file = Unused /\ conv = Unused

\* shootRay up to the loop
ShootRayBegin ==
    /\ pc = "shoot_call"
    /\ ray' = PixelRay(global_idx, image_w, image_h, cam)
    /\ closest' = HitDefault
    /\ i' = 0
    /\ pc' = "shoot_loop"
    /\ UNCHANGED << scene, cam, image_w, image_h, global_idx, hit, pixel, bbox,
                    rot, stack, n_image, file, conv >>

\* one iteration of the loop over the scene
ShootRayScan ==
    /\ pc = "shoot_loop"
    /\ i < Len(scene)
    /\ hit' = intersect(scene[i + 1], ray)
    /\ closest' = Closer(closest, hit')
    /\ i' = i + 1
    /\ UNCHANGED << pc, scene, cam, image_w, image_h, global_idx, ray, pixel,
                    bbox, rot, stack, n_image, file, conv >>

\* shootRay after the loop
ShootRayReturn ==
    /\ pc = "shoot_loop"
    /\ ~(i < Len(scene))
    /\ pixel' = Shade(closest)
    /\ pc' = "shoot_ret"
    /\ UNCHANGED << scene, cam, image_w, image_h, global_idx, ray, i, hit,
                    closest, bbox, rot, stack, n_image, file, conv >>

NextShoot == ShootRayBegin \/ ShootRayScan \/ ShootRayReturn

SpecShoot == InitShoot /\ [][NextShoot]_vars

-----------------------------------------------------------------------------
(* the scan of shootRay as the specification states it *)

\* the permutations of a sequence
Perms(sc) ==
    { [k \in 1..Len(sc) |-> sc[f[k]]] :
        f \in { g \in [1..Len(sc) -> 1..Len(sc)] :
                  \A a, b \in 1..Len(sc) : g[a] = g[b] => a = b } }

\* the Hit of every box of sc for the ray r
RECURSIVE HitsOf(_, _)
HitsOf(sc, r) ==
    IF sc = << >> THEN << >>
    ELSE << intersect(Head(sc), r) >> \o HitsOf(Tail(sc), r)

\* the boxes among the first k that are hit, given their Hits hs
HitBoxes(hs, k) == { j \in 1..k : hs[j].dist # MAXFLOAT }

\* those of them at the least distance
Nearest(hs, k) ==
    { j \in HitBoxes(hs, k) :
        \A m \in HitBoxes(hs, k) : ~isless(hs[m].dist, hs[j].dist) }

\* the least index among a non-empty set of indices
Lowest(S) == CHOOSE j \in S : \A m \in S : j <= m

\* the face normal a Hit is shaded with
HitNormal(h) == NormalOf(h.a_mask, h.b_mask)

\* the axis a unit normal names
NormalAxis(n) == CHOOSE a \in Axes : n[a] = Fl(1, 1)

\* px is what shootRay returns for every order of the scene sc
SameInAnyOrder(px, sc) ==
    \A p \in Perms(sc) : shootRay(global_idx, image_w, image_h, cam, p) = px

\* px is the shading of a box at the least hit distance, if a box is hit
ShadesANearest(px, hs) ==
    Nearest(hs, Len(hs)) # {} => \E j \in Nearest(hs, Len(hs)) : px = Shade(hs[j])

\* the boxes at the least hit distance all have the same face normal
NearestShareFace(hs) ==
    \A j, m \in Nearest(hs, Len(hs)) : HitNormal(hs[j]) = HitNormal(hs[m])

\* C2 as stated: for every pixel, camera and scene, shootRay returns the same
\* Pixel for every permutation of the scene, and when a box is hit that Pixel
\* is the shading of a box at the least hit distance.
C2_AnyOrderSamePixel ==
    pc = "shoot_ret" =>
        /\ SameInAnyOrder(pixel, scene)
        /\ ShadesANearest(pixel, HitsOf(scene, ray))

\* the amended statement for the Hits hs of the scene
SameUnlessTiedFaces(px, sc, hs) ==
    NearestShareFace(hs) => SameInAnyOrder(px, sc) /\ ShadesANearest(px, hs)

\* C2 as amended: the same, for the scenes in which the boxes at the least
\* hit distance all have the same face normal (one box alone at that distance
\* is such a scene).
C2_SamePixelUnlessTiedFaces ==
    pc = "shoot_ret" => SameUnlessTiedFaces(pixel, scene, HitsOf(scene, ray))

\* two boxes, hs their Hits: both hit, the second nearer and through another face
NearerIsSecond(hs) ==
    /\ HitBoxes(hs, 2) = {1, 2}
    /\ isless(hs[2].dist, hs[1].dist)
    /\ HitNormal(hs[1]) # HitNormal(hs[2])
    /\ pixel = Shade(hs[2])

\* two boxes hit along one ray, the nearer one later in the array and entered
\* through another face than the farther one; swapped, the Pixel is the same
C2_Witness ==
    /\ pc = "shoot_ret"
    /\ Len(scene) = 2
    /\ NearerIsSecond(HitsOf(scene, ray))
    /\ shootRay(global_idx, image_w, image_h, cam, << scene[2], scene[1] >>) = pixel

\* C3: when the ray of the pixel misses every voxel of the scene (an empty
\* scene included) shootRay returns the background Pixel(0).
C3_MissIsBackground ==
    (pc = "shoot_ret" /\ HitBoxes(HitsOf(scene, ray), Len(scene)) = {})
        => pixel = Pixel(0, 0, 0)

\* a scene of two voxels, both missed
C3_Witness ==
    /\ pc = "shoot_ret"
    /\ Len(scene) = 2
    /\ HitBoxes(HitsOf(scene, ray), 2) = {}
    /\ pixel = Pixel(0, 0, 0)

\* the empty scene
C3_EmptySceneReached == pc = "shoot_ret" /\ Len(scene) = 0 /\ pixel = Pixel(0, 0, 0)

\* the Hit of the lowest-index box at the least hit distance among the first
\* k, or the default Hit when none of them is hit
EarliestNearest(hs, k) ==
    IF HitBoxes(hs, k) = {} THEN Hit(MAXFLOAT, 0, 0)
    ELSE hs[Lowest(Nearest(hs, k))]

\* C8: after scanning scene[0..k) the kept Hit is that of the lowest-index
\* box at the least hit distance (distance and both masks), and the default
\* Hit when no box was hit.
C8_KeepsEarliestNearest ==
    pc \in {"shoot_loop", "shoot_ret"} =>
        closest = EarliestNearest(HitsOf(scene, ray), i)

\* two boxes, hs their Hits: hit at the same distance through different faces
TiedFaces(hs) ==
    /\ Nearest(hs, 2) = {1, 2}
    /\ HitNormal(hs[1]) # HitNormal(hs[2])
    /\ closest = hs[1]

\* two boxes hit at the same distance through different faces: the first is kept
C8_Witness == pc = "shoot_ret" /\ Len(scene) = 2 /\ TiedFaces(HitsOf(scene, ray))

\* the normal of the Hit h of box b names an axis whose entry is entry, the
\* greatest of the three, and h's distance is the slab test's
MaskNamesEntryAxis(b, r, h, entry) ==
    /\ AxisEntry(b, r, NormalAxis(HitNormal(h))) = entry
    /\ h.dist = IF isless(Zero, entry) /\ isless(entry, SlabExit(b, r))
                THEN entry ELSE MAXFLOAT

\* the kept Hit has the distance of a nearest box and names its entry axis
KeptNamesEntryAxis(hs, best) ==
    Nearest(hs, Len(hs)) # {} =>
        \E j \in Nearest(hs, Len(hs)) :
            /\ best.dist = hs[j].dist
            /\ AxisEntry(scene[j], ray, NormalAxis(HitNormal(best))) = best.dist

\* C9: the face normal derived from a Hit's masks names an axis whose entry
\* min(t0, t1) is the greatest of the three, ties included, for every box
\* scanned and for the kept Hit; the distance intersect returns is the one
\* the slab test gives, and the kept distance is the least of the boxes' hit
\* distances.
C9_MaskNamesEntryAxis ==
    /\ (pc = "shoot_loop" /\ i > 0) =>
          MaskNamesEntryAxis(scene[i], ray, hit, SlabEntry(scene[i], ray))
    /\ pc = "shoot_ret" => KeptNamesEntryAxis(HitsOf(scene, ray), closest)

\* a box hit where two per-axis entries are equal and are the overall entry
C9_Witness ==
    /\ pc = "shoot_ret"
    /\ Len(scene) = 1
    /\ closest.dist # MAXFLOAT
    /\ AxisEntry(scene[1], ray, "x") = closest.dist
    /\ AxisEntry(scene[1], ray, "z") = closest.dist
    /\ HitNormal(closest) = float3(Fl(1, 1), Zero, Zero)

-----------------------------------------------------------------------------
(* computeSceneBBox *)

\* an accumulator that starts from the origin instead of +-MAXFLOAT
BBoxStart_AtOrigin == BBox(float3_same(Zero), float3_same(Zero))

\* bbox_min and bbox_max before the loop
BBoxStart ==
    BBox(float3(MAXFLOAT, MAXFLOAT, MAXFLOAT),
         float3(FNeg(MAXFLOAT), FNeg(MAXFLOAT), FNeg(MAXFLOAT)))

\* one iteration of the loop
BBoxAccumulate(acc, voxel) ==
    BBox(fmin(acc.min, voxel.min), fmax(acc.max, voxel.max))

RECURSIVE BBoxFold(_, _)
BBoxFold(sc, k) ==
    IF k = 0 THEN BBoxStart ELSE BBoxAccumulate(BBoxFold(sc, k - 1), sc[k])

computeSceneBBox(sc) == BBoxFold(sc, Len(sc))

InitBBox ==
    /\ pc = "bbox_call"
    /\ scene \in Scenes
    /\ i = Unused /\ bbox = Unused
    /\ cam = Unused /\ image_w = Unused /\ image_h = Unused
    /\ global_idx = Unused /\ ray = Unused /\ hit = Unused /\ closest = Unused
    /\ pixel = Unused /\ rot = Unused /\ stack = Unused /\ n_image = Unused
    /\ file = Unused /\ conv = Unused

BBoxBegin ==
    /\ pc = "bbox_call"
    /\ bbox' = BBoxStart
    /\ i' = 0
    /\ pc' = "bbox_loop"
    /\ UNCHANGED << scene, cam, image_w, image_h, global_idx, ray, hit, closest,
                    pixel, rot, stack, n_image, file, conv >>

BBoxStep ==
    /\ pc = "bbox_loop"
    /\ i < Len(scene)
    /\ bbox' = BBoxAccumulate(bbox, scene[i + 1])
    /\ i' = i + 1
    /\ UNCHANGED << pc, scene, cam, image_w, image_h, global_idx, ray, hit,
                    closest, pixel, rot, stack, n_image, file, conv >>

BBoxReturn ==
    /\ pc = "bbox_loop"
    /\ ~(i < Len(scene))
    /\ pc' = "bbox_ret"
    /\ UNCHANGED << scene, cam, image_w, image_h, global_idx, ray, i, hit,
                    closest, pixel, bbox, rot, stack, n_image, file, conv >>

NextBBox == BBoxBegin \/ BBoxStep \/ BBoxReturn

SpecBBox == InitBBox /\ [][NextBBox]_vars

\* v is the least (greatest) of the floats in S
IsLeast(v, S) == v \in S /\ \A u \in S : ~isless(u, v)

IsGreatest(v, S) == v \in S /\ \A u \in S : ~isless(v, u)

C5_EmptySceneReached == pc = "bbox_ret" /\ Len(scene) = 0 /\ bbox = BBoxStart

-----------------------------------------------------------------------------
(* float4, matx4 and the view transform of main *)

FSub(a, b) == FAdd(a, FNeg(b))

One == Fl(1, 1)

float4(e0, e1, e2, e3) == << e0, e1, e2, e3 >>

float4_same(same) == << same, same, same, same >>

float4_add(a, b) == [j \in 1..4 |-> FAdd(a[j], b[j])]

float4_mul(a, b) == [j \in 1..4 |-> FMul(a[j], b[j])]

matx4(row0, row1, row2, row3) == << row0, row1, row2, row3 >>

matx4_transpose(m) == [r \in 1..4 |-> [c \in 1..4 |-> m[c][r]]]

\* one row of the product a * b
matx4_mul_row(a, b, r) ==
    float4_add(
        float4_add(
            float4_add(float4_mul(float4_same(a[r][1]), b[1]),
                       float4_mul(float4_same(a[r][2]), b[2])),
            float4_mul(float4_same(a[r][3]), b[3])),
        float4_mul(float4_same(a[r][4]), b[4]))

matx4_mul(a, b) == [r \in 1..4 |-> matx4_mul_row(a, b, r)]

matx4_rotate(sin_a, cos_a, x, y, z) ==
    LET xx == FMul(x, x)  yy == FMul(y, y)  zz == FMul(z, z)
        xy == FMul(x, y)  xz == FMul(x, z)  yz == FMul(y, z)
        yx == FMul(y, x)  zx == FMul(z, x)  zy == FMul(z, y)
    IN  matx4(
          float4(FAdd(xx, FMul(cos_a, FSub(One, xx))),
                 FAdd(FSub(xy, FMul(cos_a, xy)), FMul(sin_a, z)),
                 FSub(FSub(xz, FMul(cos_a, xz)), FMul(sin_a, y)),
                 Zero),
          float4(FSub(FSub(yx, FMul(cos_a, yx)), FMul(sin_a, z)),
                 FAdd(yy, FMul(cos_a, FSub(One, yy))),
                 FAdd(FSub(yz, FMul(cos_a, yz)), FMul(sin_a, x)),
                 Zero),
          float4(FAdd(FSub(zx, FMul(cos_a, zx)), FMul(sin_a, y)),
                 FSub(FSub(zy, FMul(cos_a, zy)), FMul(sin_a, x)),
                 FAdd(zz, FMul(cos_a, FSub(One, zz))),
                 Zero),
          float4(Zero, Zero, Zero, One))

\* the scene of main
MainScene ==
    << BBox(float3(Fl(-3, 4), Fl(-3, 4), Fl(-3, 4)), float3(Fl(1, 4), Fl(1, 4), Fl(1, 4))),
       BBox(float3(Fl(-1, 4), Fl(-1, 4), Fl(-1, 4)), float3(Fl(3, 4), Fl(3, 4), Fl(3, 4))) >>

\* cam_pos
MainCamPos == float3(Zero, Zero, Fl(17, 8))

\* an angle as (sin, cos)
Angle(sin_a, cos_a) == [sin |-> sin_a, cos |-> cos_a]

\* rot of main for the angles a = (roll, azimuth, declination)
MainRot(a) ==
    matx4_mul(
        matx4_mul(matx4_rotate(a[1].sin, a[1].cos, Zero, Zero, One),
                  matx4_rotate(a[2].sin, a[2].cos, Zero, One, Zero)),
        matx4_rotate(a[3].sin, a[3].cos, One, Zero, Zero))

\* mv_inv of main
MainMvInv(a, sc) ==
    LET box == computeSceneBBox(sc)
        centre == float3_mul(float3_add(box.max, box.min), float3_same(Fl(1, 2)))
        extent == float3_mul(float3_sub(box.max, box.min), float3_same(Fl(1, 2)))
        max_extent == fmaxf(extent.x, fmaxf(extent.y, extent.z))
        eye == matx4(float4(One, Zero, Zero, Zero),
                     float4(Zero, One, Zero, Zero),
                     float4(Zero, Zero, One, Zero),
                     float4(MainCamPos.x, MainCamPos.y, MainCamPos.z, One))
        zoom_n_pan == matx4(float4(max_extent, Zero, Zero, Zero),
                            float4(Zero, max_extent, Zero, Zero),
                            float4(Zero, Zero, max_extent, Zero),
                            float4(centre.x, centre.y, centre.z, One))
    IN  matx4_mul(matx4_mul(eye, matx4_transpose(MainRot(a))), zoom_n_pan)

\* cam with the forward row not negated: the camera looks away from the scene
MainCam_ForwardNotNegated(a, sc, w, h) ==
    LET mv_inv == MainMvInv(a, sc)
    IN  << float3(mv_inv[1][1], mv_inv[1][2], mv_inv[1][3]),
           float3_mul(float3(mv_inv[2][1], mv_inv[2][2], mv_inv[2][3]),
                      float3_same(FMul(IntFl(h), FInv(IntFl(w))))),
           float3(mv_inv[3][1], mv_inv[3][2], mv_inv[3][3]),
           float3(mv_inv[4][1], mv_inv[4][2], mv_inv[4][3]) >>

\* cam of main
MainCam(a, sc, w, h) ==
    LET mv_inv == MainMvInv(a, sc)
    IN  << float3(mv_inv[1][1], mv_inv[1][2], mv_inv[1][3]),
           float3_mul(float3(mv_inv[2][1], mv_inv[2][2], mv_inv[2][3]),
                      float3_same(FMul(IntFl(h), FInv(IntFl(w))))),
           float3_mul(float3(mv_inv[3][1], mv_inv[3][2], mv_inv[3][3]),
                      float3_same(IntFl(-1))),
           float3(mv_inv[4][1], mv_inv[4][2], mv_inv[4][3]) >>

-----------------------------------------------------------------------------
(* main: the camera, and the expansion of INJECT_ELEMENTS_G(0) into image[] *)

\* image_w and image_h of main
MainImageW == 256

MainImageH == 256

\* the level of INJECT_ELEMENTS_G: _0 is level 0, _9 level 9, _A level 10
InjectTop == 16

RECURSIVE Pow2(_)
Pow2(k) == IF k = 0 THEN 1 ELSE 2 * Pow2(k - 1)

\* an expansion whose second half starts nowhere new: both halves at n
InjectChildren_SameStart(k, n) == << << k - 1, n >>, << k - 1, n >> >>

\* INJECT_ELEMENTS_k(n), k >= 1, is INJECT_ELEMENTS_(k-1)(n) followed by
\* INJECT_ELEMENTS_(k-1)(n + 2^(k-1))
InjectChildren(k, n) == << << k - 1, n >>, << k - 1, n + Pow2(k - 1) >> >>

\* the rotations main is run with, as (sin, cos) of roll, azimuth and
\* declination: none, and a quarter turn of roll.  The angles written in
\* main (pi/8, pi/4, 0) have irrational sines and are not among them.
MainAngles ==
    { << Angle(Zero, One), Angle(Zero, One), Angle(Zero, One) >>,
      << Angle(One, Zero), Angle(Zero, One), Angle(Zero, One) >> }

InitMain ==
    /\ pc = "main_start"
    /\ scene = MainScene
    /\ rot \in MainAngles
    /\ image_w = MainImageW
    /\ image_h = MainImageH
    /\ cam = Unused /\ bbox = Unused
    /\ stack = << >>
    /\ n_image = 0
    /\ global_idx = Unused /\ ray = Unused /\ i = Unused /\ hit = Unused
    /\ closest = Unused /\ pixel = Unused
    /\ file = Unused /\ conv = Unused

\* main up to the initialiser of image[]
MainCamera ==
    /\ pc = "main_start"
    /\ bbox' = computeSceneBBox(scene)
    /\ cam' = MainCam(rot, scene, image_w, image_h)
    /\ stack' = << << InjectTop, 0 >> >>
    /\ pc' = "main_inject"
    /\ UNCHANGED << scene, image_w, image_h, global_idx, ray, i, hit, closest,
                    pixel, rot, n_image, file, conv >>

\* the preprocessor expands the leftmost pending INJECT_ELEMENTS_k(n), k >= 1
InjectExpand ==
    /\ pc = "main_inject"
    /\ stack # << >>
    /\ Head(stack)[1] > 0
    /\ stack' = InjectChildren(Head(stack)[1], Head(stack)[2]) \o Tail(stack)
    /\ UNCHANGED << pc, scene, cam, image_w, image_h, global_idx, ray, i, hit,
                    closest, pixel, bbox, rot, n_image, file, conv >>

\* INJECT_ELEMENTS_0(n): the next element of image[] is shootRay(n, ...)
InjectElement ==
    /\ pc = "main_inject"
    /\ stack # << >>
    /\ Head(stack)[1] = 0
    /\ global_idx' = Head(stack)[2]
    /\ ray' = PixelRay(global_idx', image_w, image_h, cam)
    /\ closest' = Scan(scene, ray', Len(scene))
    /\ pixel' = Shade(closest')
    /\ n_image' = n_image + 1
    /\ stack' = Tail(stack)
    /\ UNCHANGED << pc, scene, cam, image_w, image_h, i, hit, bbox, rot, file,
                    conv >>

\* the initialiser list is complete
InjectDone ==
    /\ pc = "main_inject"
    /\ stack = << >>
    /\ pc' = "main_fopen"
    /\ UNCHANGED << scene, cam, image_w, image_h, global_idx, ray, i, hit,
                    closest, pixel, bbox, rot, stack, n_image, file, conv >>

-----------------------------------------------------------------------------
(* main: writing image.bin *)

\* sizeof(Pixel): three uint8_t
SizeofPixel == 3

\* sizeof(uint16_t)
SizeofU16 == 2

\* the largest uint16_t
UINT16_MAX == 65535

\* int to uint16_t
U16(v) == v % (UINT16_MAX + 1)

\* the two bytes of a uint16_t with the high byte first
EncodeU16_HighFirst(v) == << v \div 256, v % 256 >>

\* the two bytes of a uint16_t in memory (low byte first)
EncodeU16(v) == << v % 256, v \div 256 >>

\* the uint16_t at bytes j, j+1 of a buffer
DecodeU16(bytes, j) == bytes[j] + 256 * bytes[j + 1]

\* byte counts at which a write that fails may have stopped
ShortWrites(total) == { 0, total \div 3, total - 1 }

\* the image dimensions main is built with: image[] has 2^InjectTop
\* elements, and a dimension beyond uint16_t does not compile (the braced
\* initialiser of dim[] would narrow a constant)
FileDims ==
    { d \in { << Pow2(k), Pow2(InjectTop - k) >> : k \in 0..InjectTop } :
        d[1] <= UINT16_MAX /\ d[2] <= UINT16_MAX }

\* if (FILE* f = fopen("image.bin", "wb"))
MainFopen ==
    /\ pc = "main_fopen"
    /\ \/ /\ file' = [exists |-> TRUE, header |-> << >>, body |-> 0, err |-> FALSE]
          /\ pc' = "main_write_dim"
       \/ /\ file' = [exists |-> FALSE, header |-> << >>, body |-> 0, err |-> FALSE]
          /\ pc' = "main_exit"
    /\ UNCHANGED << scene, cam, image_w, image_h, global_idx, ray, i, hit,
                    closest, pixel, bbox, rot, stack, n_image, conv >>

\* 2 != fwrite(dim, sizeof(dim[0]), 2, f)
MainWriteDim ==
    /\ pc = "main_write_dim"
    /\ LET dim == << U16(image_w), U16(image_h) >>
           bytes == EncodeU16(dim[1]) \o EncodeU16(dim[2])
       IN  \/ /\ file' = [file EXCEPT !.header = bytes]
              /\ pc' = "main_write_image"
           \/ /\ \E n \in ShortWrites(2 * SizeofU16) :
                     file' = [file EXCEPT !.header = SubSeq(bytes, 1, n),
                                          !.err = TRUE]
              /\ pc' = "main_fclose"
    /\ UNCHANGED << scene, cam, image_w, image_h, global_idx, ray, i, hit,
                    closest, pixel, bbox, rot, stack, n_image, conv >>

\* image_size != fwrite(image, sizeof(image[0]), image_size, f)
MainWriteImage ==
    /\ pc = "main_write_image"
    /\ LET image_size == image_w * image_h
       IN  /\ image_size <= n_image
           /\ \/ file' = [file EXCEPT !.body = image_size * SizeofPixel]
              \/ \E n \in ShortWrites(image_size * SizeofPixel) :
                     file' = [file EXCEPT !.body = n, !.err = TRUE]
    /\ pc' = "main_fclose"
    /\ UNCHANGED << scene, cam, image_w, image_h, global_idx, ray, i, hit,
                    closest, pixel, bbox, rot, stack, n_image, conv >>

\* fclose(f); return 0
MainFclose ==
    /\ pc = "main_fclose"
    /\ pc' = "main_exit"
    /\ UNCHANGED << scene, cam, image_w, image_h, global_idx, ray, i, hit,
                    closest, pixel, bbox, rot, stack, n_image, file, conv >>

-----------------------------------------------------------------------------
(* bin2png: main, run on the image.bin that main left *)

\* the bytes per sample write_png reads for its grayscale argument
PngPixelSize(grayscale) == IF grayscale THEN 1 ELSE 3

\* get_buffer_from_file("image.bin", inputLength, 16)
ConvRead ==
    /\ pc = "main_exit"
    /\ LET inputLength == Len(file.header) + file.body
       IN  \/ /\ file.exists
              /\ inputLength > 0
              /\ conv' = [inputLength |-> inputLength, result |-> "reading"]
              /\ pc' = "conv_check"
           \/ \* no file, nothing to read from it, or fopen, malloc or fread fail
              /\ conv' = [inputLength |-> 0, result |-> "failure opening input file"]
              /\ pc' = "conv_exit"
    /\ UNCHANGED << scene, cam, image_w, image_h, global_idx, ray, i, hit,
                    closest, pixel, bbox, rot, stack, n_image, file >>

\* the dimensions read from the buffer and the length check; a header byte
\* the file does not hold is whatever malloc left there
ConvCheck ==
    /\ pc = "conv_check"
    /\ \E pad \in [1..(2 * SizeofU16) -> {0, 1}] :
          LET buf == [j \in 1..(2 * SizeofU16) |->
                         IF j <= Len(file.header) THEN file.header[j] ELSE pad[j]]
              w == DecodeU16(buf, 1)
              h == DecodeU16(buf, 1 + SizeofU16)
          IN  \/ /\ w * h + 2 * SizeofU16 # conv.inputLength
                 /\ conv' = [conv EXCEPT !.result = "input file dimensions mismatch"]
                            @@ [image_w |-> w, image_h |-> h]
                 /\ pc' = "conv_exit"
              \/ /\ w * h + 2 * SizeofU16 = conv.inputLength
                 /\ conv' = [conv EXCEPT !.result = "checked"]
                            @@ [image_w |-> w, image_h |-> h]
                 /\ pc' = "conv_write"
    /\ UNCHANGED << scene, cam, image_w, image_h, global_idx, ray, i, hit,
                    closest, pixel, bbox, rot, stack, n_image, file >>

\* fopen("image.png", "wb") and write_png(true, image_w, image_h, ...)
ConvWritePng ==
    /\ pc = "conv_write"
    /\ \/ conv' = [conv EXCEPT !.result = "failure opening output file"]
       \/ conv' = [conv EXCEPT !.result = "failure writing output file"]
                  @@ [grayscale |-> TRUE, pixel_size |-> PngPixelSize(TRUE)]
       \/ conv' = [conv EXCEPT !.result = "ok"]
                  @@ [grayscale |-> TRUE, pixel_size |-> PngPixelSize(TRUE)]
    /\ pc' = "conv_exit"
    /\ UNCHANGED << scene, cam, image_w, image_h, global_idx, ray, i, hit,
                    closest, pixel, bbox, rot, stack, n_image, file >>

\* main of main.cpp with its 256 x 256 image, then bin2png
NextMain ==
    \/ MainCamera \/ InjectExpand \/ InjectElement \/ InjectDone
    \/ MainFopen \/ MainWriteDim \/ MainWriteImage \/ MainFclose
    \/ ConvRead \/ ConvCheck \/ ConvWritePng

SpecMain == InitMain /\ [][NextMain]_vars

\* the writer of main.cpp for every image shape, then bin2png
InitFile ==
    /\ pc = "main_fopen"
    /\ \E d \in FileDims : image_w = d[1] /\ image_h = d[2]
    /\ n_image = Pow2(InjectTop)
    /\ stack = << >>
    /\ file = Unused /\ conv = Unused
    /\ scene = Unused /\ cam = Unused /\ bbox = Unused /\ rot = Unused
    /\ global_idx = Unused /\ ray = Unused /\ i = Unused /\ hit = Unused
    /\ closest = Unused /\ pixel = Unused

NextFile ==
    \/ MainFopen \/ MainWriteDim \/ MainWriteImage \/ MainFclose
    \/ ConvRead \/ ConvCheck \/ ConvWritePng

SpecFile == InitFile /\ [][NextFile]_vars

-----------------------------------------------------------------------------
(* the 256 x 256 image of main *)

NoRotation == << Angle(Zero, One), Angle(Zero, One), Angle(Zero, One) >>

\* C4: with the two boxes of main, the eye at (0, 0, 2.125), a 256 x 256
\* image and no rotation, shootRay for the centre pixel (index 128*256+128)
\* reports a hit whose masks select the Z face (b_mask = 0, normal (0,0,1)),
\* and shootRay for the corner pixel (index 0) returns the background 0.
C4_CentreHitsZFaceCornerMisses ==
    (pc = "main_inject" /\ n_image > 0 /\ rot = NoRotation) =>
        /\ global_idx = 128 * 256 + 128 =>
              /\ closest.dist # MAXFLOAT
              /\ closest.b_mask = 0
              /\ HitNormal(closest) = float3(Zero, Zero, One)
              /\ pixel # Pixel(0, 0, 0)
        /\ global_idx = 0 =>
              /\ closest.dist = MAXFLOAT
              /\ pixel = Pixel(0, 0, 0)

\* the centre pixel, shot without rotation: the nearer face, z = 0.75 of the
\* second box, is hit at distance 1.125
C4_Witness ==
    /\ pc = "main_inject"
    /\ n_image > 0
    /\ rot = NoRotation
    /\ image_w = 256 /\ image_h = 256
    /\ scene = MainScene
    /\ cam[4] = float3(Zero, Zero, FMul(Fl(17, 8), Fl(3, 4)))
    /\ global_idx = 128 * 256 + 128
    /\ closest = Hit(Fl(9, 8), 1, 0)
    /\ pixel = Pixel(127, 127, 255)

\* the corner pixel, shot without rotation
C4_CornerReached ==
    /\ pc = "main_inject" /\ rot = NoRotation /\ n_image = 1 /\ global_idx = 0
    /\ pixel = Pixel(0, 0, 0)

\* C10: the expansion of INJECT_ELEMENTS_G(0) yields image_w*image_h = 65536
\* elements; the element at position p is shootRay(p, ...), every index once
\* and in increasing order; shootRay decodes the index to a row in
\* [0, image_h) and a column in [0, image_w); and the count main passes to
\* fwrite is the number of elements of image[].
C10_InjectedInOrder ==
    /\ (pc = "main_inject" /\ n_image > 0) =>
          /\ global_idx = n_image - 1
          /\ pixel = shootRay(global_idx, image_w, image_h, cam, scene)
          /\ global_idx \div image_w \in 0..(image_h - 1)
          /\ global_idx % image_w \in 0..(image_w - 1)
          /\ n_image <= image_w * image_h
    /\ pc = "main_inject" =>
          \* the pending invocations cover the indices not yet emitted, in order
          /\ \A j \in 1..Len(stack) :
                 stack[j][2] = IF j = 1 THEN n_image
                               ELSE stack[j - 1][2] + Pow2(stack[j - 1][1])
          /\ stack = << >> => n_image = image_w * image_h
    /\ pc \in {"main_fopen", "main_write_dim", "main_write_image"} =>
          /\ n_image = 65536
          /\ n_image = image_w * image_h

\* the last element of image[]: index 65535, row 255, column 255
C10_Witness ==
    /\ pc = "main_inject"
    /\ stack = << >>
    /\ n_image = 65536
    /\ global_idx = 65535
    /\ global_idx \div image_w = 255
    /\ global_idx % image_w = 255

-----------------------------------------------------------------------------
(* image.bin *)

\* main wrote the file and reported no error
WrittenWhole ==
    /\ pc \in {"main_fclose", "main_exit", "conv_check", "conv_write", "conv_exit"}
    /\ file.exists
    /\ ~file.err
    /\ Len(file.header) = 2 * SizeofU16

\* C6: the stream main writes starts with two unsigned 16-bit fields that
\* decode to the image_w and image_h that were encoded, followed by the
\* samples, and its length is 4 + width*height*sizeof(Pixel).
C6_HeaderRoundTrip ==
    (/\ pc \in {"main_fclose", "main_exit", "conv_check", "conv_write", "conv_exit"}
     /\ file.exists
     /\ ~file.err)
    =>
        /\ Len(file.header) = 4
        /\ DecodeU16(file.header, 1) = image_w
        /\ DecodeU16(file.header, 3) = image_h
        /\ file.body = image_w * image_h * SizeofPixel
        /\ Len(file.header) + file.body = 4 + image_w * image_h * 3

\* the 256 x 256 image written whole: 196612 bytes
C6_Witness ==
    /\ pc = "main_exit"
    /\ WrittenWhole
    /\ image_w = 256 /\ image_h = 256
    /\ file.header = << 0, 1, 0, 1 >>
    /\ Len(file.header) + file.body = 196612

\* C7: the converter accepts the file main wrote whole: its length check
\* passes, and the sample layout it hands to write_png (bytes per sample,
\* grayscale or not) is the one main wrote.
C7_ConverterAcceptsCoreFile ==
    (WrittenWhole /\ pc \in {"conv_write", "conv_exit"}
        /\ conv.result # "failure opening input file")
    =>
        /\ conv.result # "input file dimensions mismatch"
        /\ conv.result = "ok" =>
              /\ conv.pixel_size = SizeofPixel
              /\ ~conv.grayscale

\* what happens instead: the file written whole is always refused
C7_CoreFileRefused ==
    (WrittenWhole /\ pc = "conv_exit"
        /\ conv.result # "failure opening input file")
    => conv.result = "input file dimensions mismatch"

=============================================================================
